---- MODULE Spec2Model ----
(***************************************************************************)
(* Particle Swarm Optimisation, src/pso.py (class PSO).                    *)
(*                                                                         *)
(* Real numbers are kept in fixed point: the integer n stands for the      *)
(* real n / Unit.  A product with a fraction num/den is rounded toward     *)
(* zero (Scale).  A call of np.random.random() yields r / RandDen for a    *)
(* numerator r of RandVals.                                                *)
(*                                                                         *)
(* numpy arrays are objects: `part.bestPos = part.pos` and                 *)
(* `self.globBestPos = part.pos` store a reference to the particle's       *)
(* position array, and `part.pos += part.vel` and `part.pos[idx] = ...`    *)
(* change that array in place.  Every particle owns exactly one position   *)
(* array, so a reference is modelled as the index of the owning particle.  *)
(***************************************************************************)
EXTENDS Integers, Sequences, FiniteSets, TLC

\* ------------------------------------------------------------------------
\* Bounds of the model
\* ------------------------------------------------------------------------
Unit == 100      \* fixed-point resolution: 1.0 is Unit
RandDen == 4     \* random numbers are multiples of 1/RandDen in [0,1)
nPart == 2       \* self.nPart (100 in the source), scaled down
maxGen == 2      \* self.maxGen (500 in the source), scaled down

\* ------------------------------------------------------------------------
\* Parameters set by PSO.__init__
\* ------------------------------------------------------------------------
epsError == 1    \* self.epsError = 1.   (in whole units)
w == 2           \* self.w    = 0.2      (in tenths)
phiP == 2        \* self.phiP = 0.2      (in tenths)
phiG == 1        \* self.phiG = 0.1      (in tenths)

\* Python's None.  The empty list is not among the arguments enumerated below.
None == <<>>

VARIABLES
    pc,            \* "new", "constructed", "loop", "updated", "done"
    args,          \* arguments of the call PSO(func, bounds, initPos, nPart)
    problem,       \* self.problem
    minBound,      \* self.minBound
    maxBound,      \* self.maxBound
    dim,           \* self.dim
    initPos,       \* self.initPos: rows still to hand out, or None
    Particles,     \* self.Particles: sequence of particle records
    globBestFit,   \* self.globBestFit
    globBestPos,   \* self.globBestPos: reference to a particle's pos array
    idx,           \* loop counter of optimize()
    result,        \* value returned by optimize()
    \* history variables (observations, never read by the program)
    drawn,         \* per particle: the random vector its position was drawn with, or None
    initCalls,     \* number of calls of __initPart
    updateCalls,   \* number of calls of update
    enterGlobBestFit,  \* globBestFit when the last update() was entered
    enterGlobBestPos,  \* contents of globBestPos when the last update() was entered
    seenGlobBestPos    \* per particle: contents of globBestPos read at line 125 in the last update()

vars == <<pc, args, problem, minBound, maxBound, dim, initPos, Particles,
          globBestFit, globBestPos, idx, result, drawn, initCalls, updateCalls,
          enterGlobBestFit, enterGlobBestPos, seenGlobBestPos>>

\* ------------------------------------------------------------------------
\* Arithmetic
\* ------------------------------------------------------------------------
Abs(x) == IF x < 0 THEN -x ELSE x

\* (num/den) * x, rounded toward zero
Scale(num, den, x) ==
    IF x >= 0 THEN (num * x) \div den ELSE -((num * (-x)) \div den)

\* numerators of the values np.random.random() can return: 0 and (RandDen-1)/RandDen
RandVals == {0, RandDen - 1}

\* np.random.random(n): the vectors of n random numbers
random(n) == [1..n -> RandVals]

\* ------------------------------------------------------------------------
\* Objective functions a caller passes as func
\* ------------------------------------------------------------------------
RECURSIVE SumAbsDev(_, _)
SumAbsDev(p, n) ==
    IF n = 0 THEN 0 ELSE SumAbsDev(p, n - 1) + Abs(p[n] - 3 * Unit)

\* "dist": sum of absolute deviations from 3.0 (the shape of minProb);
\* "zero": the objective that always returns 0
Problem(f, p) == IF f = "dist" THEN SumAbsDev(p, Len(p)) ELSE 0

\* ------------------------------------------------------------------------
\* Arguments of the constructor call
\* ------------------------------------------------------------------------
BoundsArgs ==
    { << <<0>>, <<10 * Unit>> >>,          \* lower = 0
      << <<2 * Unit>>, <<6 * Unit>> >>,    \* lower # 0
      << <<6 * Unit>>, <<2 * Unit>> >> }   \* lower > upper

\* a call with one supplied row, outside the box, for a swarm of one
Call1Row ==
    [func    |-> "dist",
     bounds  |-> << <<0>>, <<10 * Unit>> >>,
     initPos |-> << <<50 * Unit>> >>,
     nPart   |-> 1]

\* a call with three supplied rows
Call3Rows ==
    [func    |-> "dist",
     bounds  |-> << <<0>>, <<10 * Unit>> >>,
     initPos |-> << <<4 * Unit>>, <<12 * Unit>>, <<1 * Unit>> >>,
     nPart   |-> 3]

\* a call with two dimensions, the second with lower = upper; the first row
\* leaves the box in both dimensions, the second in one
Call2D ==
    [func    |-> "dist",
     bounds  |-> << <<0, 3 * Unit>>, <<10 * Unit, 3 * Unit>> >>,
     initPos |-> << <<50 * Unit, 1 * Unit>>, <<4 * Unit, 5 * Unit>>,
                    <<1 * Unit, 3 * Unit>> >>,
     nPart   |-> 3]

Calls ==
    { [func |-> f, bounds |-> b, initPos |-> None, nPart |-> 10] :
          f \in {"dist", "zero"}, b \in BoundsArgs }
    \cup
    { Call1Row, Call3Rows, Call2D }

RECURSIVE Flatten(_)
Flatten(rows) ==
    IF rows = <<>> THEN <<>> ELSE Head(rows) \o Flatten(Tail(rows))

\* np.array(rows).reshape((-1, d))
Reshape(rows, d) ==
    LET flat == Flatten(rows)
    IN  [i \in 1..(Len(flat) \div d) |-> SubSeq(flat, (i - 1) * d + 1, i * d)]

\* ------------------------------------------------------------------------
\* PSO.__init__
\* ------------------------------------------------------------------------
Construct ==
    /\ pc = "new"
    /\ problem' = args.func
    /\ minBound' = args.bounds[1]
    /\ maxBound' = args.bounds[2]
    /\ dim' = Len(args.bounds[1])
    /\ initPos' = IF args.initPos # None
                    THEN Reshape(args.initPos, Len(args.bounds[1]))
                    ELSE args.initPos
    /\ pc' = "constructed"
    /\ UNCHANGED <<args, Particles, globBestFit, globBestPos, idx, result, drawn,
                   initCalls, updateCalls, enterGlobBestFit, enterGlobBestPos,
                   seenGlobBestPos>>

\* ------------------------------------------------------------------------
\* PSO.__initPart
\* ------------------------------------------------------------------------
\* the single value of a one-element set; it makes TLC evaluate a
\* loop state once instead of once per use
Only(S) == CHOOSE x \in S : TRUE

\* lines 85-104: one iteration of the loop, for particle i.
\* S.initPos: self.initPos; S.Particles: the particles initialised so far;
\* S.drawn: the position draws recorded so far
\* InitParticle without line 92: the row handed out stays in self.initPos
InitParticle_KeepsRow(S, i, rPos, rVel, rSign) ==
    LET queue == S.initPos
        pos  == IF queue = None
                  THEN [d \in 1..dim |->
                          Scale(rPos[d], RandDen, maxBound[d]) - minBound[d]]
                  ELSE queue[1]
        sign == IF 2 * rSign > RandDen THEN 1 ELSE -1
        vel  == [d \in 1..dim |->
                   Scale(rVel[d], RandDen, maxBound[d] - minBound[d]) * sign]
        fit  == Problem(problem, pos)
        part == [pos |-> pos, vel |-> vel, fitness |-> fit,
                 bestFit |-> fit, bestPos |-> i]
    IN  [Particles |-> Append(S.Particles, part),
         initPos   |-> queue,
         drawn     |-> Append(S.drawn, IF queue = None THEN rPos ELSE None)]

\* InitParticle as in the source.  `self.initPos == None` is False for an
\* array, as in the numpy of the source's date
InitParticle(S, i, rPos, rVel, rSign) ==
    LET queue == S.initPos
        pos  == IF queue = None
                  THEN [d \in 1..dim |->
                          Scale(rPos[d], RandDen, maxBound[d]) - minBound[d]]
                  ELSE queue[1]
        rest == IF queue = None THEN None
                ELSE IF Len(Tail(queue)) = 0 THEN None ELSE Tail(queue)
        sign == IF 2 * rSign > RandDen THEN 1 ELSE -1
        vel  == [d \in 1..dim |->
                   Scale(rVel[d], RandDen, maxBound[d] - minBound[d]) * sign]
        fit  == Problem(problem, pos)
        part == [pos |-> pos, vel |-> vel, fitness |-> fit,
                 bestFit |-> fit, bestPos |-> i]
    IN  [Particles |-> Append(S.Particles, part),
         initPos   |-> rest,
         drawn     |-> Append(S.drawn, IF queue = None THEN rPos ELSE None)]

\* lines 80-104: the loop after its first k iterations
RECURSIVE InitLoop(_, _, _, _, _)
InitLoop(queue, rPos, rVel, rSign, k) ==
    IF k = 0 THEN [Particles |-> <<>>, initPos |-> queue, drawn |-> <<>>]
    ELSE Only({ InitParticle(S, k, rPos[k], rVel[k], rSign[k]) :
                    S \in {InitLoop(queue, rPos, rVel, rSign, k - 1)} })

\* lines 109-112: the scan for the global best, particles i..nPart
RECURSIVE ScanBest(_, _, _, _)
ScanBest(P, i, fit, ref) ==
    IF i > Len(P) THEN [fit |-> fit, ref |-> ref]
    ELSE IF P[i].fitness < fit
         THEN ScanBest(P, i + 1, P[i].fitness, i)
         ELSE ScanBest(P, i + 1, fit, ref)

\* lines 165-167 of optimize(): the call of __initPart, and idx = 0
InitPart ==
    /\ pc = "constructed"
    /\ \E rPos \in [(Len(initPos) + 1)..nPart -> random(dim)],  \* line 89 runs once
          rVel \in [1..nPart -> random(dim)],                   \* self.initPos is None
          rSign \in [1..nPart -> RandVals] :
         \E init \in {InitLoop(initPos, rPos, rVel, rSign, nPart)} :
         \E best \in {ScanBest(init.Particles, 1, init.Particles[1].fitness, 1)} :
             /\ Particles' = init.Particles
             /\ initPos' = init.initPos
             /\ drawn' = init.drawn
             /\ globBestFit' = best.fit
             /\ globBestPos' = best.ref
    /\ idx' = 0
    /\ initCalls' = initCalls + 1
    /\ pc' = "loop"
    /\ UNCHANGED <<args, problem, minBound, maxBound, dim, result, updateCalls,
                   enterGlobBestFit, enterGlobBestPos, seenGlobBestPos>>

\* ------------------------------------------------------------------------
\* PSO.update
\* ------------------------------------------------------------------------
\* Clamp without lines 134-136
Clamp_LowerOnly(p) ==
    [d \in 1..Len(p) |-> IF p[d] < minBound[d] THEN minBound[d] ELSE p[d]]

\* lines 131-136: first the lower bounds, then the upper bounds
Clamp(p) ==
    LET lo == [d \in 1..Len(p) |-> IF p[d] < minBound[d] THEN minBound[d] ELSE p[d]]
    IN  [d \in 1..Len(p) |-> IF lo[d] > maxBound[d] THEN maxBound[d] ELSE lo[d]]

\* lines 119-139: one iteration of the first loop, for particle k.
\* S.P: the particles; S.seen: for each particle advanced so far, the contents
\* of globBestPos it read; g is self.globBestPos, which this loop never assigns
AdvancePart(S, g, rP, rG, k) ==
    LET Q    == S.P
        part == Q[k]
        pos  == part.pos
        bp   == Q[part.bestPos].pos
        gp   == Q[g].pos
        vel  == [d \in 1..Len(pos) |->
                   Scale(w, 10, part.vel[d])
                   + Scale(phiP * rP, 10 * RandDen, bp[d] - pos[d])
                   + Scale(phiG * rG, 10 * RandDen, gp[d] - pos[d])]
        new  == Clamp([d \in 1..Len(pos) |-> pos[d] + vel[d]])
    IN  [P |-> [Q EXCEPT ![k] = [@ EXCEPT !.vel = vel, !.pos = new,
                                          !.fitness = Problem(problem, new)]],
         seen |-> Append(S.seen, gp)]

\* lines 116-139: the first loop after its first k iterations
RECURSIVE Advance(_, _, _, _, _)
Advance(P, g, rP, rG, k) ==
    IF k = 0 THEN [P |-> P, seen |-> <<>>]
    ELSE Only({ AdvancePart(S, g, rP[k], rG[k], k) :
                    S \in {Advance(P, g, rP, rG, k - 1)} })

\* AggregatePart without the test of line 149
AggregatePart_AlwaysAdopts(S, i) ==
    LET P    == S.Particles
        part == P[i]
        P2   == IF part.fitness < part.bestFit
                  THEN [P EXCEPT ![i].bestFit = part.fitness]
                  ELSE P
    IN  [Particles |-> P2, fit |-> part.fitness, ref |-> i]

\* lines 144-151: one iteration of the second loop, for particle i
AggregatePart(S, i) ==
    LET P    == S.Particles
        part == P[i]
        P2   == IF part.fitness < part.bestFit
                  THEN [P EXCEPT ![i].bestFit = part.fitness]
                  ELSE P
    IN  IF part.fitness < S.fit
          THEN [Particles |-> P2, fit |-> part.fitness, ref |-> i]
          ELSE [Particles |-> P2, fit |-> S.fit, ref |-> S.ref]

\* lines 142-151: the second loop after its first k iterations
RECURSIVE Aggregate(_, _, _, _)
Aggregate(P, fit, ref, k) ==
    IF k = 0 THEN [Particles |-> P, fit |-> fit, ref |-> ref]
    ELSE Only({ AggregatePart(S, k) : S \in {Aggregate(P, fit, ref, k - 1)} })

\* one iteration of the while loop of optimize() up to the call of update()
Update ==
    /\ pc = "loop"
    /\ idx < maxGen
    /\ \E rP \in [1..nPart -> RandVals], rG \in [1..nPart -> RandVals] :
         \E moved \in {Advance(Particles, globBestPos, rP, rG, Len(Particles))} :
         \E agg \in {Aggregate(moved.P, globBestFit, globBestPos, Len(moved.P))} :
             /\ Particles' = agg.Particles
             /\ globBestFit' = agg.fit
             /\ globBestPos' = agg.ref
             /\ seenGlobBestPos' = moved.seen
    /\ enterGlobBestFit' = globBestFit
    /\ enterGlobBestPos' = Particles[globBestPos].pos
    /\ updateCalls' = updateCalls + 1
    /\ pc' = "updated"
    /\ UNCHANGED <<args, problem, minBound, maxBound, dim, initPos, idx, result,
                   drawn, initCalls>>

\* ------------------------------------------------------------------------
\* PSO.finished and the rest of PSO.optimize
\* ------------------------------------------------------------------------
finished == <<Particles[globBestPos].pos, globBestFit>>

\* TestThreshold without lines 175-176
TestThreshold_NeverReturns ==
    /\ pc = "updated"
    /\ idx' = idx + 1
    /\ pc' = "loop"
    /\ UNCHANGED <<args, problem, minBound, maxBound, dim, initPos, Particles,
                   globBestFit, globBestPos, result, drawn, initCalls, updateCalls,
                   enterGlobBestFit, enterGlobBestPos, seenGlobBestPos>>

\* lines 175-179
TestThreshold ==
    /\ pc = "updated"
    /\ IF globBestFit < epsError * Unit
         THEN /\ result' = finished
              /\ pc' = "done"
              /\ idx' = idx
         ELSE /\ idx' = idx + 1
              /\ pc' = "loop"
              /\ result' = result
    /\ UNCHANGED <<args, problem, minBound, maxBound, dim, initPos, Particles,
                   globBestFit, globBestPos, drawn, initCalls, updateCalls,
                   enterGlobBestFit, enterGlobBestPos, seenGlobBestPos>>

\* lines 168 and 182: the loop condition fails
Exhausted ==
    /\ pc = "loop"
    /\ ~(idx < maxGen)
    /\ result' = finished
    /\ pc' = "done"
    /\ UNCHANGED <<args, problem, minBound, maxBound, dim, initPos, Particles,
                   globBestFit, globBestPos, idx, drawn, initCalls, updateCalls,
                   enterGlobBestFit, enterGlobBestPos, seenGlobBestPos>>

\* ------------------------------------------------------------------------
\* Specification
\* ------------------------------------------------------------------------
\* Before the constructor runs the object has no attributes.  A numeric
\* attribute not yet assigned reads 0, self.problem reads "unset" and an array
\* reads None here; no action reads an attribute before it is assigned.
Init ==
    /\ pc = "new"
    /\ args \in Calls
    /\ problem = "unset"
    /\ minBound = None
    /\ maxBound = None
    /\ dim = 0
    /\ initPos = None
    /\ Particles = <<>>
    /\ globBestFit = 0
    /\ globBestPos = 0
    /\ idx = 0
    /\ result = None
    /\ drawn = <<>>
    /\ initCalls = 0
    /\ updateCalls = 0
    /\ enterGlobBestFit = 0
    /\ enterGlobBestPos = None
    /\ seenGlobBestPos = <<>>

Next == Construct \/ InitPart \/ Update \/ TestThreshold \/ Exhausted

Spec == Init /\ [][Next]_vars

\* optimize() is a sequential loop: a step that is enabled is taken
FairSpec == Spec /\ WF_vars(Next)

\* ------------------------------------------------------------------------
\* Vocabulary of the properties
\* ------------------------------------------------------------------------
Initialised == pc \in {"loop", "updated", "done"}

ValidBounds(lo, hi) ==
    /\ Len(lo) = Len(hi)
    /\ \A d \in 1..Len(lo) : lo[d] <= hi[d]

InBox(p) == \A d \in 1..Len(p) : minBound[d] <= p[d] /\ p[d] <= maxBound[d]

bestPosOf(i) == Particles[Particles[i].bestPos].pos

\* ------------------------------------------------------------------------
\* Properties
\* ------------------------------------------------------------------------

\* C1: optimize() initialises the swarm exactly once, calls update() at most
\* maxGen times, tests the threshold only after an update(), goes on to another
\* update() only while the global best fitness is not below the threshold,
\* returns either with the fitness below the threshold or after exactly maxGen
\* updates, returns the pair (globBestPos, globBestFit), and always returns.
C1_OptimizeSteps ==
    /\ initCalls <= 1
    /\ (Initialised => initCalls = 1)
    /\ (~Initialised => updateCalls = 0)
    /\ updateCalls <= maxGen
    /\ (pc = "loop" => updateCalls = idx)
    /\ (pc = "loop" /\ updateCalls > 0 => globBestFit >= epsError * Unit)
    /\ (pc = "done" =>
            /\ updateCalls >= 1
            /\ (globBestFit < epsError * Unit \/ updateCalls = maxGen)
            /\ result = <<Particles[globBestPos].pos, globBestFit>>)

C1_Optimize == []C1_OptimizeSteps /\ <>(pc = "done")

\* C1 witness: a run on the objective "dist" that returned early, after fewer
\* than maxGen updates, with the global best fitness below the threshold
C1_Witness ==
    /\ pc = "done"
    /\ updateCalls < maxGen
    /\ problem = "dist"
    /\ globBestFit < epsError * Unit

\* C2: the recorded global best position is the position at which the recorded
\* global best fitness was found: problem(globBestPos) = globBestFit
C2_GlobalBestConsistent ==
    Initialised => Problem(problem, Particles[globBestPos].pos) = globBestFit

\* C3: after every update(), with bounds lower <= upper, every coordinate of
\* every particle lies in [minBound, maxBound]
C3_ClampedAfterUpdate ==
    (updateCalls >= 1 /\ ValidBounds(minBound, maxBound))
        => \A i \in 1..Len(Particles) : InBox(Particles[i].pos)

\* C3 witness: the first particle was given a position above the upper bound
\* and sits on the upper bound after the first update()
C3_Witness ==
    /\ pc = "updated"
    /\ updateCalls = 1
    /\ ValidBounds(minBound, maxBound)
    /\ args.initPos # None
    /\ args.initPos[1][1] > maxBound[1]
    /\ Particles[1].pos = maxBound

\* C4: after __initPart, with bounds lower <= upper, every particle whose
\* position was drawn at random lies in [minBound, maxBound]
C4_RandomInitInBox ==
    (pc = "loop" /\ updateCalls = 0 /\ ValidBounds(minBound, maxBound))
        => \A i \in 1..Len(Particles) :
              drawn[i] # None => InBox(Particles[i].pos)

\* C5: an update() never increases globBestFit
C5_GlobalBestNonIncreasing ==
    [][(pc = "loop" /\ pc' = "updated") => globBestFit' <= globBestFit]_vars

\* C5 witness: an update() has lowered globBestFit
C5_Witness ==
    /\ pc = "updated"
    /\ globBestFit < enterGlobBestFit

\* C6: an optimizer exists only for bounds of equal length with lower <= upper
C6_InvalidBoundsRejected ==
    pc # "new" => ValidBounds(args.bounds[1], args.bounds[2])

\* C7: the swarm has as many particles as the nPart passed to the constructor
C7_SwarmSizeIsArgument ==
    Initialised => Len(Particles) = args.nPart

\* C8: right after __initPart, particle i has the i-th supplied row, unchanged,
\* for every i up to the number of supplied rows, and a randomly drawn
\* position otherwise; the rows not handed out remain queued
C8_SuppliedPositionsFirst ==
    (pc = "loop" /\ updateCalls = 0) =>
        LET k == Len(args.initPos)
        IN  /\ Len(Particles) = nPart
            /\ \A i \in 1..nPart :
                  IF i <= k
                    THEN /\ Particles[i].pos = args.initPos[i]
                         /\ drawn[i] = None
                    ELSE /\ drawn[i] \in random(dim)
                         /\ Particles[i].pos =
                              [d \in 1..dim |->
                                 Scale(drawn[i][d], RandDen, maxBound[d]) - minBound[d]]
            /\ initPos = IF k > nPart THEN SubSeq(args.initPos, nPart + 1, k) ELSE None

\* C8 witness: fewer rows than particles were supplied, the row lies outside
\* the box, and the second particle's position was drawn
C8_Witness ==
    /\ pc = "loop"
    /\ updateCalls = 0
    /\ Len(args.initPos) = 1
    /\ ~InBox(Particles[1].pos)
    /\ Particles[1].pos = args.initPos[1]
    /\ drawn[2] # None

\* C9: every particle's bestFit is the objective value at its bestPos
C9_PersonalBestConsistent ==
    Initialised =>
        \A i \in 1..Len(Particles) :
            Particles[i].bestFit = Problem(problem, bestPosOf(i))

\* C10: within one update(), every particle reads the global best position
\* that was recorded when the call started
C10_GlobalBestFrozen ==
    updateCalls >= 1 =>
        \A i \in 1..Len(seenGlobBestPos) : seenGlobBestPos[i] = enterGlobBestPos
====
